---------------------------- MODULE Spec2Model ----------------------------
(***************************************************************************)
(* msavoiu/user-app: an Express service over PostgreSQL.                   *)
(*   routes/auth.js     POST /auth/register, POST /auth/login,             *)
(*                      GET /auth/validate, POST /auth/logout              *)
(*   routes/profile.js  GET /profile/view, PUT /profile/update,            *)
(*                      DELETE /profile/delete                             *)
(*   middleware         authenticateJWT (the gate of the protected routes) *)
(*   database.sql       tables users and user_profiles                     *)
(*                                                                         *)
(* A request occupies a slot of Reqs. A handler runs synchronously up to   *)
(* its first await; every awaited store or bcrypt call is one step of the  *)
(* model (the call and the code up to the next await), so the requests in  *)
(* flight interleave exactly at the awaits. Every awaited call may also    *)
(* throw (store unreachable, bcrypt failure): the input ok = FALSE.        *)
(***************************************************************************)
EXTENDS Integers, Sequences, FiniteSets, TLC

(* ------------------------------ bounds -------------------------------- *)

\* Request slots: the requests that can be in flight at once.
NumReqs == 2
\* Values the users.id SERIAL sequence may hand out.
MaxId == 2
\* Clock advances in a behaviour.
MaxTicks == 3
\* Tokens the clients hold at once.
MaxTokens == 1

Reqs == 1..NumReqs
Ids == 1..MaxId

(* -------------------------- program constants ------------------------- *)

\* jwt.sign(..., { expiresIn: 1800 }), seconds.
expiresIn == 1800
\* res.cookie(..., { maxAge: 1800000 }), milliseconds.
maxAge == 1800000

\* process.env.JWT_SECRET, and the secret of a token the server did not sign.
JWT_SECRET == "JWT_SECRET"
WrongSecret == "wrongsecret"

\* database.sql: the column defaults of user_profiles.
DefaultDisplayName == "No name set yet."
DefaultBio == "No bio set yet."

(* ------------------------------ inputs -------------------------------- *)

Usernames == {"alice", "bob"}
Passwords == {"pw1", "pw2"}
\* A body field that the request does not carry (JavaScript undefined).
Undefined == "<undefined>"
\* displayName / bio of PUT /profile/update: absent, empty, or a new value.
NewDisplayName == "New Display Name"
NewBio == "This is a new bio."
\* <<displayName, bio>>: neither, both empty, one of them (the other absent
\* or empty), both.
Patches ==
    {<<Undefined, Undefined>>, <<"", "">>, <<NewDisplayName, Undefined>>,
     <<NewDisplayName, "">>, <<NewDisplayName, NewBio>>}
\* The clock advances by a second or by a second less than the token's ttl.
TickSteps == {1, expiresIn - 1}

NoBody ==
    [username |-> Undefined, password |-> Undefined,
     displayName |-> Undefined, bio |-> Undefined]
CredBody(u, p) ==
    [username |-> u, password |-> p, displayName |-> Undefined, bio |-> Undefined]
PatchBody(d, b) ==
    [username |-> Undefined, password |-> Undefined, displayName |-> d, bio |-> b]

(* --------------------------- bcryptjs --------------------------------- *)

\* bcrypt.hash(password, salt): the digest embeds the algorithm and cost.
bcryptHash(p) == <<"$2a$10$", p>>
\* bcrypt.compare(password, digest).
bcryptCompare(p, digest) == digest = bcryptHash(p)

(* --------------------------- jsonwebtoken ----------------------------- *)

\* req.cookies.auth_token: absent, the empty string, a string that is no
\* JWT, or a JWT (payload id/iat/exp and signature).
NoCookie == [kind |-> "undefined", id |-> 0, iat |-> 0, exp |-> 0, sig |-> <<>>]
EmptyCookie == [kind |-> "empty", id |-> 0, iat |-> 0, exp |-> 0, sig |-> <<>>]
Garbage == [kind |-> "garbage", id |-> 0, iat |-> 0, exp |-> 0, sig |-> <<>>]

\* HMAC of the payload under a secret.
HS256(id, iat, exp, secret) == <<secret, id, iat, exp>>

jwtSignWith(id, t, secret) ==
    [kind |-> "jwt", id |-> id, iat |-> t, exp |-> t + expiresIn,
     sig |-> HS256(id, t, t + expiresIn, secret)]

\* jwt.sign({ id }, process.env.JWT_SECRET, { expiresIn: 1800 }) at time t.
jwtSign(id, t) == jwtSignWith(id, t, JWT_SECRET)

\* jwtVerifyErr with the expiry compared by > for >=: a token still verifies
\* in the second of its expiry.
jwtVerifyErr_lateExpiry(token, secret, t) ==
    IF token.kind # "jwt" THEN "JsonWebTokenError: jwt malformed"
    ELSE IF token.sig # HS256(token.id, token.iat, token.exp, secret)
    THEN "JsonWebTokenError: invalid signature"
    ELSE IF t > token.exp THEN "TokenExpiredError: jwt expired"
    ELSE ""

\* jwt.verify(token, secret) at time t: the error it passes to the callback
\* ("" when there is none). Structure first, then signature, then expiry.
jwtVerifyErr(token, secret, t) ==
    IF token.kind # "jwt" THEN "JsonWebTokenError: jwt malformed"
    ELSE IF token.sig # HS256(token.id, token.iat, token.exp, secret)
    THEN "JsonWebTokenError: invalid signature"
    ELSE IF t >= token.exp THEN "TokenExpiredError: jwt expired"
    ELSE ""

(* ------------------------------ state --------------------------------- *)

VARIABLES
    users,      \* table users: set of rows [id, username, password_hash]
    profiles,   \* table user_profiles: sequence of rows [user_id, display_name, bio]
    nextId,     \* the next value of the users.id SERIAL sequence
    now,        \* the clock, in seconds
    ticks,      \* clock advances so far
    jar,        \* the tokens the clients hold (cookies and retained copies)
    loggedOut,  \* tokens of jar that a completed logout request carried
    req         \* per slot: the request in flight, its locals and its response

vars == <<users, profiles, nextId, now, ticks, jar, loggedOut, req>>
store == <<users, profiles, nextId>>

(* ----------------------------- responses ------------------------------ *)

NoSetCookie == [op |-> "none"]
\* res.cookie('auth_token', token, { httpOnly, secure, maxAge })
SetAuthCookie(token) ==
    [op |-> "set", name |-> "auth_token", value |-> token,
     httpOnly |-> TRUE, secure |-> "NODE_ENV=production", maxAge |-> maxAge]
\* res.clearCookie("auth_token", { httpOnly, secure, sameSite })
ClearAuthCookie ==
    [op |-> "clear", name |-> "auth_token",
     httpOnly |-> TRUE, secure |-> "NODE_ENV=production", sameSite |-> "strict"]

Resp(status, body, cookie) == [status |-> status, body |-> body, cookie |-> cookie]
NoResp == Resp(0, [none |-> TRUE], NoSetCookie)

Msg(success, message) == [success |-> success, message |-> message]

Gate401 == Resp(401, Msg(FALSE, "Access Denied: No token provided"), NoSetCookie)
Gate403 == Resp(403, Msg(FALSE, "Forbidden: Invalid token"), NoSetCookie)
Register409 ==
    Resp(409, Msg(FALSE, "Username is already in use. Please choose a different one."),
         NoSetCookie)
Login401 == Resp(401, Msg(FALSE, "Username and/or password is incorrect."), NoSetCookie)
AuthServerError == Resp(500, [error |-> "Server error"], NoSetCookie)
Issued(status, token) ==
    Resp(status, [success |-> TRUE, redirect |-> "/profile"], SetAuthCookie(token))
Validate200 == Resp(200, [tokenIsValid |-> TRUE], NoSetCookie)
Logout200 == Resp(200, [success |-> TRUE], ClearAuthCookie)
ProfileServerError ==
    Resp(500, Msg(FALSE, "An error has occurred. Please try again later."), NoSetCookie)
View404 == Resp(404, Msg(FALSE, "Profile not found."), NoSetCookie)
View200(data) == Resp(200, [success |-> TRUE, data |-> data], NoSetCookie)
Update300 == Resp(300, Msg(FALSE, "Profile could not be updated."), NoSetCookie)
Update200 == Resp(200, Msg(TRUE, "Profile updated."), NoSetCookie)
Delete404 == Resp(404, Msg(FALSE, "User to delete not found."), NoSetCookie)
Delete200 ==
    Resp(200, [success |-> TRUE, message |-> "User deleted.", redirect |-> "/"],
         NoSetCookie)

(* ------------------------------ requests ------------------------------ *)

NoRow == [id |-> 0, username |-> Undefined, password_hash |-> <<>>]

\* A free slot.
Idle ==
    [route |-> "none", pc |-> "idle", cookie |-> NoCookie, body |-> NoBody,
     user_id |-> 0, verified |-> FALSE, row |-> NoRow, hash |-> <<>>,
     err |-> "", resp |-> NoResp]

\* A request as it arrives: its route, its auth_token cookie and its body.
Arrived(route, cookie, body) ==
    [Idle EXCEPT !.route = route, !.cookie = cookie, !.body = body]

\* The request ends: its response, and what console.error / console.log got.
Done(r, resp, err) == [r EXCEPT !.pc = "done", !.resp = resp, !.err = err]

ProtectedRoutes == {"validate", "view", "update", "delete"}

\* The auth_token cookies a client can send at time t: none, an empty one, a
\* string that is no token, a token it holds, a held token with its id or its
\* expiry altered (signature kept), and a token signed with another secret.
Cookies(t) ==
    {NoCookie, EmptyCookie, Garbage}
    \cup jar
    \cup {[tok EXCEPT !.id = i] : tok \in jar, i \in Ids}
    \cup {[tok EXCEPT !.exp = @ + expiresIn] : tok \in jar}
    \cup {jwtSignWith(1, t, WrongSecret)}

\* res.json writes the response at once: a finished request leaves its slot
\* (Close) before anything else happens, so a response is in the state for
\* exactly one step.
Delivered == \A r \in Reqs : req[r].pc # "done"

\* A new request takes the lowest free slot (the slots are interchangeable).
Free(r) ==
    /\ Delivered
    /\ req[r].pc = "idle"
    /\ \A s \in Reqs : s < r => req[s].pc # "idle"

(* ------------------------------ the gate ------------------------------ *)

\* authenticateJWT reading the payload without verifying it (jwt.decode for
\* jwt.verify): any well-formed token is admitted.
authenticateJWT_decodeOnly(token, t) ==
    IF token.kind \in {"undefined", "empty"}
    THEN [next |-> FALSE, user_id |-> 0, verified |-> FALSE, resp |-> Gate401]
    ELSE IF token.kind # "jwt"
    THEN [next |-> FALSE, user_id |-> 0, verified |-> TRUE, resp |-> Gate403]
    ELSE [next |-> TRUE, user_id |-> token.id, verified |-> TRUE, resp |-> NoResp]

\* authenticateJWT without its if (!token) branch: a missing cookie goes to
\* jwt.verify, which fails, and the caller gets the 403.
authenticateJWT_noTokenCheck(token, t) ==
    IF jwtVerifyErr(token, JWT_SECRET, t) # ""
    THEN [next |-> FALSE, user_id |-> 0, verified |-> TRUE, resp |-> Gate403]
    ELSE [next |-> TRUE, user_id |-> token.id, verified |-> TRUE, resp |-> NoResp]

\* authenticateJWT telling the caller that the token expired.
authenticateJWT_leakExpiry(token, t) ==
    IF token.kind \in {"undefined", "empty"}
    THEN [next |-> FALSE, user_id |-> 0, verified |-> FALSE, resp |-> Gate401]
    ELSE IF jwtVerifyErr(token, JWT_SECRET, t) = "TokenExpiredError: jwt expired"
    THEN [next |-> FALSE, user_id |-> 0, verified |-> TRUE,
          resp |-> Resp(403, Msg(FALSE, "Forbidden: Token expired"), NoSetCookie)]
    ELSE IF jwtVerifyErr(token, JWT_SECRET, t) # ""
    THEN [next |-> FALSE, user_id |-> 0, verified |-> TRUE, resp |-> Gate403]
    ELSE [next |-> TRUE, user_id |-> token.id, verified |-> TRUE, resp |-> NoResp]

\* authenticateJWT consulting a list of logged-out tokens.
authenticateJWT_revoking(token, t) ==
    IF token.kind \in {"undefined", "empty"}
    THEN [next |-> FALSE, user_id |-> 0, verified |-> FALSE, resp |-> Gate401]
    ELSE IF jwtVerifyErr(token, JWT_SECRET, t) # "" \/ token \in loggedOut
    THEN [next |-> FALSE, user_id |-> 0, verified |-> TRUE, resp |-> Gate403]
    ELSE [next |-> TRUE, user_id |-> token.id, verified |-> TRUE, resp |-> NoResp]

\* authenticateJWT(req, res, next) at time t: whether next() is called, the
\* req.user_id it attached, whether jwt.verify was called, and the response
\* it sent when it did not call next().
authenticateJWT(token, t) ==
    IF token.kind \in {"undefined", "empty"}             \* if (!token)
    THEN [next |-> FALSE, user_id |-> 0, verified |-> FALSE, resp |-> Gate401]
    ELSE IF jwtVerifyErr(token, JWT_SECRET, t) # ""      \* if (err)
    THEN [next |-> FALSE, user_id |-> 0, verified |-> TRUE, resp |-> Gate403]
    ELSE [next |-> TRUE, user_id |-> token.id, verified |-> TRUE, resp |-> NoResp]

\* A protected route: the gate runs on arrival. When it called next() the
\* handler starts: GET /auth/validate answers at once, the others suspend at
\* their awaited query (pc).
Gated(r, route, cookie, body, pc) ==
    LET g == authenticateJWT(cookie, now)
        a == [Arrived(route, cookie, body) EXCEPT !.verified = g.verified,
                                                  !.user_id = g.user_id]
    IN  /\ Free(r)
        /\ req' = [req EXCEPT ![r] =
                IF ~g.next THEN Done(a, g.resp, "")
                ELSE IF route = "validate" THEN Done(a, Validate200, "")
                ELSE [a EXCEPT !.pc = pc]]
        /\ UNCHANGED <<users, profiles, nextId, now, ticks, jar, loggedOut>>

(* ------------------------------ the store ----------------------------- *)

\* SELECT * FROM users WHERE username = $1
SelectByUsername(u) == {row \in users : row.username = u}

\* console.error(err.message) of the awaited calls that throw.
StoreFault == "store unreachable"
HashFault == "bcrypt failure"
UniqueViolation == "duplicate key value violates unique constraint"
ForeignKeyViolation == "insert or update on table violates foreign key constraint"
SyntaxError == "syntax error at or near WHERE"

\* users.username is UNIQUE: whether INSERT INTO users (username, ...) is refused.
UsernameTaken(u) == SelectByUsername(u) # {}

\* user_profiles.user_id REFERENCES users(id): whether the insert is refused.
NoSuchUser(id) == \A row \in users : row.id # id

\* The rows of user_profiles with user_id = id, as positions in the table.
ProfileRows(id) == {i \in 1..Len(profiles) : profiles[i].user_id = id}

\* The rows of a table whose user_id is not id, in order (what ON DELETE
\* CASCADE leaves of user_profiles).
RECURSIVE Without(_, _)
Without(rows, id) ==
    IF rows = <<>> THEN <<>>
    ELSE IF Head(rows).user_id = id THEN Without(Tail(rows), id)
    ELSE <<Head(rows)>> \o Without(Tail(rows), id)

(* ---------------------- POST /auth/register --------------------------- *)

RegisterPending == {"reg_lookup", "reg_hash", "reg_insert_user"}
IdsToDraw == Cardinality({r \in Reqs : req[r].pc \in RegisterPending})

\* The request arrives; the handler awaits its SELECT.
Register(r, u, p) ==
    /\ Free(r)
    /\ nextId + IdsToDraw <= MaxId
    /\ req' = [req EXCEPT ![r] =
            [Arrived("register", NoCookie, CredBody(u, p)) EXCEPT !.pc = "reg_lookup"]]
    /\ UNCHANGED <<users, profiles, nextId, now, ticks, jar, loggedOut>>

\* RegLookup without the rows.length > 0 branch: the handler goes on to hash
\* and insert whatever the SELECT returned.
RegLookup_noConflictBranch(r, ok) ==
    LET q == req[r]
    IN  /\ Delivered
        /\ q.pc = "reg_lookup"
        /\ req' = [req EXCEPT ![r] =
                IF ~ok THEN Done(q, AuthServerError, StoreFault)
                ELSE [q EXCEPT !.pc = "reg_hash"]]
        /\ UNCHANGED <<users, profiles, nextId, now, ticks, jar, loggedOut>>

\* await pool.query("SELECT * FROM users WHERE username = $1"), then the
\* 409 when a row came back.
RegLookup(r, ok) ==
    LET q == req[r]
    IN  /\ Delivered
        /\ q.pc = "reg_lookup"
        /\ req' = [req EXCEPT ![r] =
                IF ~ok THEN Done(q, AuthServerError, StoreFault)
                ELSE IF SelectByUsername(q.body.username) # {}
                THEN Done(q, Register409, "")
                ELSE [q EXCEPT !.pc = "reg_hash"]]
        /\ UNCHANGED <<users, profiles, nextId, now, ticks, jar, loggedOut>>

\* await bcrypt.genSalt(10); await bcrypt.hash(password, salt)
RegHash(r, ok) ==
    LET q == req[r]
    IN  /\ Delivered
        /\ q.pc = "reg_hash"
        /\ req' = [req EXCEPT ![r] =
                IF ~ok THEN Done(q, AuthServerError, HashFault)
                ELSE [q EXCEPT !.pc = "reg_insert_user",
                               !.hash = bcryptHash(q.body.password)]]
        /\ UNCHANGED <<users, profiles, nextId, now, ticks, jar, loggedOut>>

\* RegInsertUser on a table whose id is the lowest id not in use instead of
\* the next value of a sequence: the id of a deleted user is handed out again.
RegInsertUser_reuseIds(r, ok) ==
    LET q == req[r]
        lowest == CHOOSE i \in Ids \cup {MaxId + 1} :
                    /\ NoSuchUser(i)
                    /\ \A j \in 1..(i - 1) : ~NoSuchUser(j)
        newUser == [id |-> lowest, username |-> q.body.username,
                    password_hash |-> q.hash]
    IN  /\ Delivered
        /\ q.pc = "reg_insert_user"
        /\ IF ~ok
           THEN /\ req' = [req EXCEPT ![r] = Done(q, AuthServerError, StoreFault)]
                /\ UNCHANGED <<users, nextId>>
           ELSE IF UsernameTaken(q.body.username)
           THEN /\ req' = [req EXCEPT ![r] = Done(q, AuthServerError, UniqueViolation)]
                /\ nextId' = nextId + 1
                /\ UNCHANGED users
           ELSE /\ req' = [req EXCEPT ![r] =
                        [q EXCEPT !.pc = "reg_insert_profile", !.row = newUser]]
                /\ users' = users \cup {newUser}
                /\ nextId' = nextId + 1
        /\ UNCHANGED <<profiles, now, ticks, jar, loggedOut>>

\* RegInsertUser with a retry: when the insert throws, the handler logs the
\* error and starts over from its SELECT instead of answering 500.
RegInsertUser_retry(r, ok) ==
    LET q == req[r]
        newUser == [id |-> nextId, username |-> q.body.username,
                    password_hash |-> q.hash]
    IN  /\ Delivered
        /\ q.pc = "reg_insert_user"
        /\ IF ~ok
           THEN /\ req' = [req EXCEPT ![r] =
                        [q EXCEPT !.pc = "reg_lookup", !.err = StoreFault]]
                /\ UNCHANGED <<users, nextId>>
           ELSE IF UsernameTaken(q.body.username)
           THEN /\ req' = [req EXCEPT ![r] =
                        [q EXCEPT !.pc = "reg_lookup", !.err = UniqueViolation]]
                /\ nextId' = nextId + 1
                /\ UNCHANGED users
           ELSE /\ req' = [req EXCEPT ![r] =
                        [q EXCEPT !.pc = "reg_insert_profile", !.row = newUser]]
                /\ users' = users \cup {newUser}
                /\ nextId' = nextId + 1
        /\ UNCHANGED <<profiles, now, ticks, jar, loggedOut>>

\* await pool.query("INSERT INTO users (username, password_hash) ... RETURNING *").
\* The id is drawn from the sequence before the UNIQUE constraint is checked,
\* and a refused insert does not give it back.
RegInsertUser(r, ok) ==
    LET q == req[r]
        newUser == [id |-> nextId, username |-> q.body.username,
                    password_hash |-> q.hash]
    IN  /\ Delivered
        /\ q.pc = "reg_insert_user"
        /\ IF ~ok
           THEN /\ req' = [req EXCEPT ![r] = Done(q, AuthServerError, StoreFault)]
                /\ UNCHANGED <<users, nextId>>
           ELSE IF UsernameTaken(q.body.username)
           THEN /\ req' = [req EXCEPT ![r] = Done(q, AuthServerError, UniqueViolation)]
                /\ nextId' = nextId + 1
                /\ UNCHANGED users
           ELSE /\ req' = [req EXCEPT ![r] =
                        [q EXCEPT !.pc = "reg_insert_profile", !.row = newUser]]
                /\ users' = users \cup {newUser}
                /\ nextId' = nextId + 1
        /\ UNCHANGED <<profiles, now, ticks, jar, loggedOut>>

\* RegInsertProfile with the INSERT INTO user_profiles issued twice:
\* user_profiles.user_id is not UNIQUE, the table takes both rows.
RegInsertProfile_twice(r, ok) ==
    LET q == req[r]
        token == jwtSign(q.row.id, now)
        row == [user_id |-> q.row.id, display_name |-> DefaultDisplayName,
                bio |-> DefaultBio]
    IN  /\ Delivered
        /\ q.pc = "reg_insert_profile"
        /\ IF ~ok
           THEN /\ req' = [req EXCEPT ![r] = Done(q, AuthServerError, StoreFault)]
                /\ UNCHANGED profiles
           ELSE IF NoSuchUser(q.row.id)
           THEN /\ req' = [req EXCEPT ![r] =
                        Done(q, AuthServerError, ForeignKeyViolation)]
                /\ UNCHANGED profiles
           ELSE /\ req' = [req EXCEPT ![r] = Done(q, Issued(201, token), "")]
                /\ profiles' = Append(Append(profiles, row), row)
        /\ UNCHANGED <<users, nextId, now, ticks, jar, loggedOut>>

\* await pool.query("INSERT INTO user_profiles (user_id) VALUES ($1)"), then
\* jwt.sign, res.cookie and the 201.
RegInsertProfile(r, ok) ==
    LET q == req[r]
        token == jwtSign(q.row.id, now)
    IN  /\ Delivered
        /\ q.pc = "reg_insert_profile"
        /\ IF ~ok
           THEN /\ req' = [req EXCEPT ![r] = Done(q, AuthServerError, StoreFault)]
                /\ UNCHANGED profiles
           ELSE IF NoSuchUser(q.row.id)
           THEN /\ req' = [req EXCEPT ![r] =
                        Done(q, AuthServerError, ForeignKeyViolation)]
                /\ UNCHANGED profiles
           ELSE /\ req' = [req EXCEPT ![r] = Done(q, Issued(201, token), "")]
                /\ profiles' = Append(profiles,
                        [user_id |-> q.row.id, display_name |-> DefaultDisplayName,
                         bio |-> DefaultBio])
        /\ UNCHANGED <<users, nextId, now, ticks, jar, loggedOut>>

(* ------------------------ POST /auth/login ---------------------------- *)

\* The request arrives; the handler awaits its SELECT.
Login(r, u, p) ==
    /\ Free(r)
    /\ req' = [req EXCEPT ![r] =
            [Arrived("login", NoCookie, CredBody(u, p)) EXCEPT !.pc = "login_lookup"]]
    /\ UNCHANGED <<users, profiles, nextId, now, ticks, jar, loggedOut>>

\* LoginLookup answering an unknown username with a message of its own.
LoginLookup_userNotFound(r, ok) ==
    LET q == req[r]
    IN  /\ Delivered
        /\ q.pc = "login_lookup"
        /\ req' = [req EXCEPT ![r] =
                IF ~ok THEN Done(q, AuthServerError, StoreFault)
                ELSE IF SelectByUsername(q.body.username) = {}
                THEN Done(q, Resp(401, Msg(FALSE, "User not found."), NoSetCookie), "")
                ELSE [q EXCEPT !.pc = "login_compare",
                               !.row = CHOOSE row \in SelectByUsername(q.body.username) : TRUE]]
        /\ UNCHANGED <<users, profiles, nextId, now, ticks, jar, loggedOut>>

\* await pool.query("SELECT * FROM users WHERE username = $1"), then the 401
\* when no row came back. username is UNIQUE: rows[0] is the only row.
LoginLookup(r, ok) ==
    LET q == req[r]
    IN  /\ Delivered
        /\ q.pc = "login_lookup"
        /\ req' = [req EXCEPT ![r] =
                IF ~ok THEN Done(q, AuthServerError, StoreFault)
                ELSE IF SelectByUsername(q.body.username) = {}
                THEN Done(q, Login401, "")
                ELSE [q EXCEPT !.pc = "login_compare",
                               !.row = CHOOSE row \in SelectByUsername(q.body.username) : TRUE]]
        /\ UNCHANGED <<users, profiles, nextId, now, ticks, jar, loggedOut>>

\* LoginCompare setting the cookie before it looks at validPassword.
LoginCompare_cookieFirst(r, ok) ==
    LET q == req[r]
    IN  /\ Delivered
        /\ q.pc = "login_compare"
        /\ req' = [req EXCEPT ![r] =
                IF ~ok THEN Done(q, AuthServerError, HashFault)
                ELSE IF ~bcryptCompare(q.body.password, q.row.password_hash)
                THEN Done(q, [Login401 EXCEPT
                                !.cookie = SetAuthCookie(jwtSign(q.row.id, now))], "")
                ELSE Done(q, Issued(200, jwtSign(q.row.id, now)), "")]
        /\ UNCHANGED <<users, profiles, nextId, now, ticks, jar, loggedOut>>

\* await bcrypt.compare(password, user.rows[0].password_hash), then the 401
\* on a mismatch, else jwt.sign, res.cookie and the 200.
LoginCompare(r, ok) ==
    LET q == req[r]
    IN  /\ Delivered
        /\ q.pc = "login_compare"
        /\ req' = [req EXCEPT ![r] =
                IF ~ok THEN Done(q, AuthServerError, HashFault)
                ELSE IF ~bcryptCompare(q.body.password, q.row.password_hash)
                THEN Done(q, Login401, "")
                ELSE Done(q, Issued(200, jwtSign(q.row.id, now)), "")]
        /\ UNCHANGED <<users, profiles, nextId, now, ticks, jar, loggedOut>>

(* ------------------------ POST /auth/logout --------------------------- *)

\* Logout mounted behind authenticateJWT: a request whose cookie the gate
\* rejects gets the gate's answer and no clearCookie.
Logout_gated(r, cookie) ==
    LET g == authenticateJWT(cookie, now)
        a == [Arrived("logout", cookie, NoBody) EXCEPT !.verified = g.verified]
    IN  /\ Free(r)
        /\ req' = [req EXCEPT ![r] =
                IF g.next THEN Done(a, Logout200, "") ELSE Done(a, g.resp, "")]
        /\ loggedOut' = loggedOut \cup ({cookie} \cap jar)
        /\ UNCHANGED <<users, profiles, nextId, now, ticks, jar>>

\* No gate and no await: res.clearCookie and the 200, whatever the cookie.
Logout(r, cookie) ==
    /\ Free(r)
    /\ req' = [req EXCEPT ![r] = Done(Arrived("logout", cookie, NoBody), Logout200, "")]
    /\ loggedOut' = loggedOut \cup ({cookie} \cap jar)
    /\ UNCHANGED <<users, profiles, nextId, now, ticks, jar>>

(* ------------------------ GET /auth/validate -------------------------- *)

Validate(r, cookie) == Gated(r, "validate", cookie, NoBody, "done")

(* ------------------------ GET /profile/view --------------------------- *)

View(r, cookie) == Gated(r, "view", cookie, NoBody, "view_query")

\* SELECT users.username, user_profiles.display_name, user_profiles.bio FROM
\* users INNER JOIN user_profiles ON users.id = user_profiles.user_id
\* WHERE users.id = $1: the joined rows, in table order.
JoinedRows(id) ==
    IF NoSuchUser(id) THEN <<>>
    ELSE LET u == CHOOSE row \in users : row.id = id
             joined(p) == [username |-> u.username, display_name |-> p.display_name,
                           bio |-> p.bio]
         IN  [i \in 1..Len(SelectSeq(profiles, LAMBDA p : p.user_id = id)) |->
                 joined(SelectSeq(profiles, LAMBDA p : p.user_id = id)[i])]

\* await pool.query(the join), then the 404 or the 200 with rows[0].
ViewQuery(r, ok) ==
    LET q == req[r]
    IN  /\ Delivered
        /\ q.pc = "view_query"
        /\ req' = [req EXCEPT ![r] =
                IF ~ok THEN Done(q, ProfileServerError, StoreFault)
                ELSE IF Len(JoinedRows(q.user_id)) = 0 THEN Done(q, View404, "")
                ELSE Done(q, View200(JoinedRows(q.user_id)[1]), "")]
        /\ UNCHANGED <<users, profiles, nextId, now, ticks, jar, loggedOut>>

(* ------------------------ PUT /profile/update ------------------------- *)

Update(r, cookie, d, b) == Gated(r, "update", cookie, PatchBody(d, b), "update_query")

\* if (displayName) / if (bio): undefined and "" are falsy.
Truthy(v) == v # Undefined /\ v # ""

\* The columns of the SET clause the handler builds from the body.
SetClause(body) ==
    (IF Truthy(body.displayName) THEN {"display_name"} ELSE {})
    \cup (IF Truthy(body.bio) THEN {"bio"} ELSE {})

\* Patched by a statement that sets both columns whatever the body carries:
\* a column whose field is missing from the body goes back to its default.
Patched_overwrite(row, body) ==
    [row EXCEPT
        !.display_name = IF "display_name" \in SetClause(body)
                         THEN body.displayName ELSE DefaultDisplayName,
        !.bio = IF "bio" \in SetClause(body) THEN body.bio ELSE DefaultBio]

\* UPDATE user_profiles SET ... WHERE user_id = $n, applied to one row.
Patched(row, body) ==
    [row EXCEPT
        !.display_name = IF "display_name" \in SetClause(body)
                         THEN body.displayName ELSE @,
        !.bio = IF "bio" \in SetClause(body) THEN body.bio ELSE @]

\* await pool.query(query, values): with an empty SET clause the statement
\* "UPDATE user_profiles SET WHERE user_id = $1" does not parse and the query
\* throws; else the rows of the subject are patched, rowCount 0 gives the 300.
UpdateQuery(r, ok) ==
    LET q == req[r]
    IN  /\ Delivered
        /\ q.pc = "update_query"
        /\ IF ~ok
           THEN /\ req' = [req EXCEPT ![r] = Done(q, ProfileServerError, StoreFault)]
                /\ UNCHANGED profiles
           ELSE IF SetClause(q.body) = {}
           THEN /\ req' = [req EXCEPT ![r] = Done(q, ProfileServerError, SyntaxError)]
                /\ UNCHANGED profiles
           ELSE /\ req' = [req EXCEPT ![r] =
                        IF ProfileRows(q.user_id) = {} THEN Done(q, Update300, "")
                        ELSE Done(q, Update200, "")]
                /\ profiles' = [i \in 1..Len(profiles) |->
                        IF profiles[i].user_id = q.user_id
                        THEN Patched(profiles[i], q.body) ELSE profiles[i]]
        /\ UNCHANGED <<users, nextId, now, ticks, jar, loggedOut>>

(* ----------------------- DELETE /profile/delete ----------------------- *)

Delete(r, cookie) == Gated(r, "delete", cookie, NoBody, "delete_query")

\* DeleteQuery on a schema whose foreign key has no ON DELETE CASCADE handled
\* by hand: the users row goes, its user_profiles rows stay.
DeleteQuery_noCascade(r, ok) ==
    LET q == req[r]
    IN  /\ Delivered
        /\ q.pc = "delete_query"
        /\ IF ~ok
           THEN /\ req' = [req EXCEPT ![r] = Done(q, ProfileServerError, StoreFault)]
                /\ UNCHANGED <<users, profiles>>
           ELSE /\ req' = [req EXCEPT ![r] =
                        IF NoSuchUser(q.user_id) THEN Done(q, Delete404, "")
                        ELSE Done(q, Delete200, "")]
                /\ users' = {row \in users : row.id # q.user_id}
                /\ UNCHANGED profiles
        /\ UNCHANGED <<nextId, now, ticks, jar, loggedOut>>

\* await pool.query("DELETE FROM users WHERE id = $1"): the row goes and, by
\* ON DELETE CASCADE, its user_profiles rows; rowCount 0 gives the 404.
DeleteQuery(r, ok) ==
    LET q == req[r]
    IN  /\ Delivered
        /\ q.pc = "delete_query"
        /\ IF ~ok
           THEN /\ req' = [req EXCEPT ![r] = Done(q, ProfileServerError, StoreFault)]
                /\ UNCHANGED <<users, profiles>>
           ELSE /\ req' = [req EXCEPT ![r] =
                        IF NoSuchUser(q.user_id) THEN Done(q, Delete404, "")
                        ELSE Done(q, Delete200, "")]
                /\ users' = {row \in users : row.id # q.user_id}
                /\ profiles' = IF NoSuchUser(q.user_id) THEN profiles
                               ELSE Without(profiles, q.user_id)
        /\ UNCHANGED <<nextId, now, ticks, jar, loggedOut>>

(* ------------------------- clients and clock -------------------------- *)

\* The response reaches the client, which keeps the token of a Set-Cookie or
\* does not; the slot is free again.
Close(r, keep) ==
    /\ req[r].pc = "done"
    /\ IF keep
       THEN /\ req[r].resp.cookie.op = "set"
            /\ Cardinality(jar \cup {req[r].resp.cookie.value}) <= MaxTokens
            /\ jar' = jar \cup {req[r].resp.cookie.value}
       ELSE UNCHANGED jar
    /\ req' = [req EXCEPT ![r] = Idle]
    /\ UNCHANGED <<users, profiles, nextId, now, ticks, loggedOut>>

\* Every holder of a token drops it.
Discard(tok) ==
    /\ Delivered
    /\ tok \in jar
    /\ jar' = jar \ {tok}
    /\ loggedOut' = loggedOut \ {tok}
    /\ UNCHANGED <<users, profiles, nextId, now, ticks, req>>

\* Time passes.
Tick(d) ==
    /\ Delivered
    /\ ticks < MaxTicks
    /\ now' = now + d
    /\ ticks' = ticks + 1
    /\ UNCHANGED <<users, profiles, nextId, jar, loggedOut, req>>

Init ==
    /\ users = {}
    /\ profiles = <<>>
    /\ nextId = 1
    /\ now = 0
    /\ ticks = 0
    /\ jar = {}
    /\ loggedOut = {}
    /\ req = [r \in Reqs |-> Idle]

\* The awaited calls of the requests in flight return or throw, and the
\* responses are delivered.
Awaited ==
    \/ \E r \in Reqs, ok \in BOOLEAN : RegLookup(r, ok)
    \/ \E r \in Reqs, ok \in BOOLEAN : RegHash(r, ok)
    \/ \E r \in Reqs, ok \in BOOLEAN : RegInsertUser(r, ok)
    \/ \E r \in Reqs, ok \in BOOLEAN : RegInsertProfile(r, ok)
    \/ \E r \in Reqs, ok \in BOOLEAN : LoginLookup(r, ok)
    \/ \E r \in Reqs, ok \in BOOLEAN : LoginCompare(r, ok)
    \/ \E r \in Reqs, ok \in BOOLEAN : ViewQuery(r, ok)
    \/ \E r \in Reqs, ok \in BOOLEAN : UpdateQuery(r, ok)
    \/ \E r \in Reqs, ok \in BOOLEAN : DeleteQuery(r, ok)
    \/ \E r \in Reqs, keep \in BOOLEAN : Close(r, keep)

\* Concurrent requests of clients that send the cookie they were given, or none.
HonestCookies == {NoCookie} \cup jar
RegisterPasswords == {"pw1"}

Next ==
    \/ \E r \in Reqs, u \in Usernames, p \in RegisterPasswords : Register(r, u, p)
    \/ \E r \in Reqs, u \in Usernames, p \in Passwords : Login(r, u, p)
    \/ \E r \in Reqs, c \in HonestCookies : Logout(r, c)
    \/ \E r \in Reqs, c \in HonestCookies : Validate(r, c)
    \/ \E r \in Reqs, c \in HonestCookies : View(r, c)
    \/ \E r \in Reqs, c \in HonestCookies, patch \in Patches :
            Update(r, c, patch[1], patch[2])
    \/ \E r \in Reqs, c \in HonestCookies : Delete(r, c)
    \/ Awaited
    \/ \E tok \in jar : Discard(tok)

Spec == Init /\ [][Next]_vars

\* One request at a time, with any cookie a client can make up, while time passes.
NextGate ==
    \/ \E u \in Usernames, p \in RegisterPasswords : Register(1, u, p)
    \/ \E u \in Usernames, p \in Passwords : Login(1, u, p)
    \/ \E c \in Cookies(now) : Logout(1, c)
    \/ \E c \in Cookies(now) : Validate(1, c)
    \/ \E c \in Cookies(now) : View(1, c)
    \/ \E c \in Cookies(now) : Update(1, c, NewDisplayName, Undefined)
    \/ \E c \in Cookies(now) : Delete(1, c)
    \/ Awaited
    \/ \E tok \in jar : Discard(tok)
    \/ \E d \in TickSteps : Tick(d)

SpecGate == Init /\ [][NextGate]_vars

(* ======================= the claims, checked ========================== *)

\* The protected handler of request q has started: it awaits its query, or it
\* has answered (the gate's own answers are the 401 and the 403).
HandlerRan(q) ==
    /\ q.route \in ProtectedRoutes
    /\ \/ q.pc \in {"view_query", "update_query", "delete_query"}
       \/ q.pc = "done" /\ q.resp \notin {Gate401, Gate403}

\* Request r arrives on a protected route in this step.
ArrivesProtected(r) == req[r].pc = "idle" /\ req'[r].route \in ProtectedRoutes

\* The token carries the signature of its payload under the process secret.
SignedByServer(tok) ==
    tok.kind = "jwt" /\ tok.sig = HS256(tok.id, tok.iat, tok.exp, JWT_SECRET)

(* C1: a protected handler runs for a request only after authenticateJWT
   admitted it: the handler starts in the very step in which the request
   arrives and jwt.verify is called, the cookie is then a token signed with
   the process secret and not yet expired, and as long as the handler runs
   req.user_id is the id claim of that token. *)
C1_GateIsChokepoint ==
    /\ [](\A r \in Reqs : HandlerRan(req[r]) =>
            /\ req[r].verified
            /\ SignedByServer(req[r].cookie)
            /\ req[r].user_id = req[r].cookie.id)
    /\ [][\A r \in Reqs : (~HandlerRan(req[r]) /\ HandlerRan(req'[r])) =>
            /\ req[r].pc = "idle"
            /\ now < req'[r].cookie.exp]_vars

\* GET /profile/view answered 200 for the subject of the token it carried.
C1_Witness ==
    \E r \in Reqs :
        /\ req[r].route = "view"
        /\ req[r].resp.status = 200
        /\ req[r].user_id = req[r].cookie.id

(* C2: a request to a protected route without an auth_token cookie gets the
   401 "Access Denied: No token provided" in the step of its arrival;
   jwt.verify is not called, the handler does not start and the tables and
   the id sequence are unchanged. *)
C2_NoCookieIs401 ==
    [][\A r \in Reqs : (ArrivesProtected(r) /\ req'[r].cookie = NoCookie) =>
            /\ req'[r].pc = "done"
            /\ req'[r].resp = Gate401
            /\ ~req'[r].verified
            /\ ~HandlerRan(req'[r])
            /\ UNCHANGED store]_vars

\* DELETE /profile/delete without a cookie was answered 401 while a user exists.
C2_Witness ==
    \E r \in Reqs :
        /\ req[r].route = "delete"
        /\ req[r].cookie = NoCookie
        /\ req[r].resp = Gate401
        /\ users # {}

(* C3, as claimed: a request to a protected route whose auth_token cookie is
   present but does not verify gets the 403 "Forbidden: Invalid token",
   whatever the reason; the handler does not start and the store is
   unchanged. *)
C3_PresentInvalidIs403 ==
    [][\A r \in Reqs :
            (/\ ArrivesProtected(r)
             /\ req'[r].cookie # NoCookie
             /\ jwtVerifyErr(req'[r].cookie, JWT_SECRET, now) # "") =>
            /\ req'[r].pc = "done"
            /\ req'[r].resp = Gate403
            /\ ~HandlerRan(req'[r])
            /\ UNCHANGED store]_vars

(* C3, amended: the same for a cookie that is present and not the empty
   string (an empty auth_token is answered like a missing one). *)
C3_NonEmptyInvalidIs403 ==
    [][\A r \in Reqs :
            (/\ ArrivesProtected(r)
             /\ req'[r].cookie \notin {NoCookie, EmptyCookie}
             /\ jwtVerifyErr(req'[r].cookie, JWT_SECRET, now) # "") =>
            /\ req'[r].pc = "done"
            /\ req'[r].resp = Gate403
            /\ ~HandlerRan(req'[r])
            /\ UNCHANGED store]_vars

\* A token the server signed was answered 403 after its expiry.
C3_Witness ==
    \E r \in Reqs :
        /\ req[r].route \in ProtectedRoutes
        /\ req[r].resp = Gate403
        /\ SignedByServer(req[r].cookie)
        /\ now >= req[r].cookie.exp

(* C4: the gate admits a token exactly when it carries the signature of the
   process secret and the time is before its expiry, which is 1800 s after
   its issue; whether the store still holds the subject plays no part. The
   clock never goes back, so an expired token stays expired. *)
C4_ValidIffSignedAndUnexpired ==
    /\ [][\A r \in Reqs : (ArrivesProtected(r) /\ req'[r].cookie.kind = "jwt") =>
            (HandlerRan(req'[r]) <=>
                /\ SignedByServer(req'[r].cookie)
                /\ now < req'[r].cookie.exp)]_vars
    /\ [](\A tok \in jar : tok.exp = tok.iat + 1800)
    /\ [][now' >= now]_vars

\* A token was admitted in the last second of its life, its user deleted.
C4_Witness ==
    \E r \in Reqs :
        /\ HandlerRan(req[r])
        /\ now = req[r].cookie.iat + 1799
        /\ NoSuchUser(req[r].cookie.id)

(* C5, as claimed: in every state another request can observe, every row
   of users has a row of user_profiles with its id. *)
C5_UserNeverWithoutProfile ==
    \A u \in users : ProfileRows(u.id) # {}

(* C6: the store never holds two users rows with one username; a
   registration whose SELECT finds the username is answered 409 with the
   "already in use" message, sets no cookie and leaves the tables and the id
   sequence as they were; a registration whose SELECT finds nothing and
   whose inserts go through is answered 201. *)
C6_SecondRegistrationIs409 ==
    /\ [](\A u1 \in users, u2 \in users : u1.username = u2.username => u1 = u2)
    /\ [][\A r \in Reqs :
            (/\ req[r].pc = "reg_lookup"
             /\ req'[r].pc # "reg_lookup"
             /\ req'[r].err = "") =>
            IF SelectByUsername(req[r].body.username) # {}
            THEN /\ req'[r].pc = "done"
                 /\ req'[r].resp = Register409
                 /\ req'[r].resp.cookie = NoSetCookie
                 /\ UNCHANGED store
            ELSE req'[r].pc = "reg_hash"]_vars
    /\ [][\A r \in Reqs :
            (/\ req[r].pc = "reg_insert_profile"
             /\ req'[r].pc = "done"
             /\ req'[r].err = "") =>
            req'[r].resp.status = 201]_vars

\* A registration was answered 409 and the username has its one row.
C6_Witness ==
    \E r \in Reqs :
        /\ req[r].route = "register"
        /\ req[r].resp = Register409
        /\ Cardinality(SelectByUsername(req[r].body.username)) = 1

(* C7, as claimed: a registration that fails because its username is a
   duplicate is answered 409, never 500, however the registrations
   interleave. *)
C7_DuplicateIsAlways409 ==
    \A r \in Reqs :
        (/\ req[r].route = "register"
         /\ req[r].pc = "done"
         /\ req[r].err = UniqueViolation) =>
        req[r].resp.status = 409

(* C8: a login for a username the store does not hold and a login with a
   password that does not match the stored digest get the same answer, the
   401 "Username and/or password is incorrect." without a cookie, and leave
   the store as it was (unless the awaited call itself threw, which is the
   500 in both cases). *)
C8_LoginNonDistinguishing ==
    [][\A r \in Reqs :
            /\ (/\ req[r].pc = "login_lookup"
                /\ req'[r].pc # "login_lookup"
                /\ SelectByUsername(req[r].body.username) = {}
                /\ req'[r].err = "") =>
               (req'[r].resp = Login401 /\ UNCHANGED store)
            /\ (/\ req[r].pc = "login_compare"
                /\ req'[r].pc # "login_compare"
                /\ req[r].row.password_hash # bcryptHash(req[r].body.password)
                /\ req'[r].err = "") =>
               (req'[r].resp = Login401 /\ UNCHANGED store)]_vars

\* A login with the wrong password for a user the store holds got the 401.
C8_Witness ==
    \E r \in Reqs :
        /\ req[r].route = "login"
        /\ req[r].resp = Login401
        /\ \E u \in users :
            /\ u.username = req[r].body.username
            /\ u.password_hash # bcryptHash(req[r].body.password)

(* C9: a response sets the auth_token cookie exactly when it is the 201 of a
   registration or the 200 of a login, whose body is {success: true,
   redirect: "/profile"}; the token in it is admitted by the gate at that
   time with, as subject, the id of the row the registration inserted or of
   the row whose username and password the login matched. *)
C9_CookieIffSuccess ==
    \A r \in Reqs : req[r].pc = "done" =>
        LET q == req[r]
            tok == q.resp.cookie.value
            success == \/ q.route = "register" /\ q.resp.status = 201
                       \/ q.route = "login" /\ q.resp.status = 200
        IN  /\ q.resp.cookie.op = "set" <=> success
            /\ q.route \in {"register", "login"} =>
                    (success <=> q.resp.status \notin {401, 409, 500})
            /\ success =>
                /\ q.resp.body = [success |-> TRUE, redirect |-> "/profile"]
                /\ q.resp.cookie.name = "auth_token"
                /\ authenticateJWT(tok, now).next
                /\ authenticateJWT(tok, now).user_id = q.row.id
                /\ q.row.username = q.body.username
                /\ q.row.password_hash = bcryptHash(q.body.password)
                /\ q.route = "register" => q.row \in users

\* A registration was answered 201 with a cookie, its row in users.
C9_Witness ==
    \E r \in Reqs :
        /\ req[r].route = "register"
        /\ req[r].resp.status = 201
        /\ req[r].resp.cookie.op = "set"
        /\ req[r].row \in users

(* C10: a token that a completed logout request carried is still admitted on
   every protected route at every time before its expiry, with the same
   subject id. *)
C10_NoRevocation ==
    [][\A r \in Reqs :
            (/\ ArrivesProtected(r)
             /\ req'[r].cookie \in loggedOut
             /\ now < req'[r].cookie.exp) =>
            /\ HandlerRan(req'[r])
            /\ req'[r].user_id = req'[r].cookie.id]_vars

\* After a logout and some time, the token was admitted by DELETE /profile/delete.
C10_Witness ==
    \E r \in Reqs :
        /\ req[r].route = "delete"
        /\ HandlerRan(req[r])
        /\ req[r].cookie \in loggedOut
        /\ now > req[r].cookie.iat

(* C11: POST /auth/logout answers in the step of its arrival, whatever cookie
   it carries (none, empty, no token, forged, expired, valid) and whatever
   came before, other logouts included: the 200 {success: true} with the
   instruction to clear auth_token; jwt.verify is not called, and the tables
   and the id sequence are unchanged. *)
C11_LogoutUnconditional ==
    [][\A r \in Reqs : (req[r].pc = "idle" /\ req'[r].route = "logout") =>
            /\ req'[r].pc = "done"
            /\ req'[r].resp.status = 200
            /\ req'[r].resp.body = [success |-> TRUE]
            /\ req'[r].resp.cookie.op = "clear"
            /\ req'[r].resp.cookie.name = "auth_token"
            /\ ~req'[r].verified
            /\ req'[r].err = ""
            /\ UNCHANGED store]_vars

\* A logout with a cookie that is no token was answered 200, after a logout
\* that carried a held token, while the store holds a user.
C11_Witness ==
    \E r \in Reqs :
        /\ req[r].route = "logout"
        /\ req[r].cookie = Garbage
        /\ req[r].resp = Logout200
        /\ loggedOut # {}
        /\ users # {}

\* The rows of a user_profiles table that belong to user i, in order.
ProfilesOf(tbl, i) == SelectSeq(tbl, LAMBDA p : p.user_id = i)

\* The awaited query of request r returns (does not throw) in this step.
Returns(r, pc) == req[r].pc = pc /\ req'[r].pc = "done" /\ req'[r].err = ""

\* An id whose users row is gone does not get a row again.
DeletedStaysDeleted ==
    \A i \in Ids : (i < nextId /\ NoSuchUser(i)) => NoSuchUser(i)'

(* C12: when the DELETE of an admitted DELETE /profile/delete returns and the
   users row of its subject s exists, the answer is the 200 {success: true,
   message: "User deleted.", redirect: "/"}, the users row of s and every
   user_profiles row of s are gone and the rows of every other user are as
   they were. From then on s has no row again, the gate still admits the
   token of s, a view by s is answered 404 "Profile not found." and a delete
   by s is answered 404 "User to delete not found.", both without a change
   of the store. *)
C12_DeleteCascades ==
    /\ [][\A r \in Reqs : Returns(r, "delete_query") =>
            LET s == req[r].user_id
            IN  IF \E u \in users : u.id = s
                THEN /\ req'[r].resp.status = 200
                     /\ req'[r].resp.body =
                            [success |-> TRUE, message |-> "User deleted.",
                             redirect |-> "/"]
                     /\ users' = {u \in users : u.id # s}
                     /\ ProfilesOf(profiles', s) = <<>>
                     /\ \A i \in Ids \ {s} :
                            ProfilesOf(profiles', i) = ProfilesOf(profiles, i)
                     /\ nextId' = nextId
                ELSE /\ req'[r].resp.status = 404
                     /\ req'[r].resp.body = Msg(FALSE, "User to delete not found.")
                     /\ UNCHANGED store]_vars
    /\ [][\A r \in Reqs :
            (Returns(r, "view_query") /\ NoSuchUser(req[r].user_id)) =>
            /\ req'[r].resp.status = 404
            /\ req'[r].resp.body = Msg(FALSE, "Profile not found.")
            /\ UNCHANGED store]_vars
    /\ [][\A r \in Reqs :
            (/\ ArrivesProtected(r)
             /\ req'[r].cookie \in jar
             /\ NoSuchUser(req'[r].cookie.id)) =>
            HandlerRan(req'[r])]_vars
    /\ [][DeletedStaysDeleted]_vars

\* A second delete with the token of a deleted user was answered 404 while
\* another user has its users row and its profile.
C12_Witness ==
    \E r \in Reqs :
        /\ req[r].route = "delete"
        /\ req[r].resp = Delete404
        /\ req[r].cookie \in jar
        /\ req[r].cookie.id < nextId
        /\ \E u \in users : ProfilesOf(profiles, u.id) # <<>>

(* C13, as claimed: an admitted PUT /profile/update whose body has no
   updatable field (displayName and bio both absent or both empty), and
   whose store is reachable, is answered 300 "Profile could not be updated."
   and changes no row. *)
C13_NoFieldsIs300 ==
    \A r \in Reqs :
        (/\ req[r].route = "update"
         /\ req[r].pc = "done"
         /\ HandlerRan(req[r])
         /\ SetClause(req[r].body) = {}
         /\ req[r].err # StoreFault) =>
        req[r].resp = Update300

(* C14: in every state each user id has at most one user_profiles row, and
   every user_profiles row has the users row of its user_id. The first row
   of an id appears only in the step in which a registration inserts it for
   the users row it inserted before and answers 201, and it carries the
   column defaults; the rows of an id disappear only in the step in which
   the users row of that id is deleted. *)
C14_OneProfilePerUser ==
    /\ [](\A k \in 1..Len(profiles) : profiles[k].user_id \in Ids)
    /\ [](\A i \in Ids :
            /\ Len(ProfilesOf(profiles, i)) <= 1
            /\ ProfilesOf(profiles, i) # <<>> => \E u \in users : u.id = i)
    /\ [][\A i \in Ids :
            ProfilesOf(profiles', i) # ProfilesOf(profiles, i) =>
            \/ /\ ProfilesOf(profiles, i) = <<>>
               /\ ProfilesOf(profiles', i) =
                    <<[user_id |-> i, display_name |-> "No name set yet.",
                       bio |-> "No bio set yet."]>>
               /\ \E r \in Reqs :
                    /\ req[r].route = "register"
                    /\ req[r].row.id = i
                    /\ req[r].row \in users
                    /\ req'[r].pc = "done"
                    /\ req'[r].resp.status = 201
            \/ /\ ProfilesOf(profiles', i) = <<>>
               /\ \E u \in users : u.id = i
               /\ NoSuchUser(i)'
               /\ \E r \in Reqs : req[r].pc = "delete_query" /\ req[r].user_id = i
            \/ /\ Len(ProfilesOf(profiles', i)) = Len(ProfilesOf(profiles, i))
               /\ \E r \in Reqs : req[r].pc = "update_query" /\ req[r].user_id = i]_vars

\* One user was deleted with its profile while the other user keeps its one
\* profile, which an update has changed.
C14_Witness ==
    /\ Cardinality(users) = 1
    /\ Len(profiles) = 1
    /\ \E u \in users : u.id = 2 /\ profiles[1].user_id = 2
    /\ profiles[1].display_name = NewDisplayName
    /\ \E r \in Reqs : req[r].route = "delete" /\ req[r].resp = Delete200

\* How far the handler of a request has come: free slot, awaiting the n-th
\* call of its handler, answered.
Rank(pc) ==
    CASE pc = "idle" -> 0
      [] pc \in {"reg_lookup", "login_lookup", "view_query", "update_query",
                 "delete_query"} -> 1
      [] pc \in {"reg_hash", "login_compare"} -> 2
      [] pc = "reg_insert_user" -> 3
      [] pc = "reg_insert_profile" -> 4
      [] pc = "done" -> 5

(* C15: a request moves forward only (an awaited call is never issued
   again), it is answered once (an answered request does not change until
   its slot is freed), an answer of the gate (401, 403) is given on arrival
   with no handler step before or after it, and an awaited call that throws
   ends its request in that very step with a 500. *)
C15_OneTerminalOutcome ==
    /\ [][\A r \in Reqs :
            /\ req'[r] # req[r] =>
                \/ req[r].pc = "done" /\ req'[r] = Idle
                \/ req[r].pc # "done" /\ Rank(req'[r].pc) > Rank(req[r].pc)
            /\ (req[r].pc # "idle" /\ req'[r].pc # "idle") =>
                /\ req'[r].route = req[r].route
                /\ req'[r].cookie = req[r].cookie
                /\ req'[r].body = req[r].body
            /\ (req'[r].pc = "done" /\ req'[r].resp \in {Gate401, Gate403}
                    /\ req'[r].route \in ProtectedRoutes) =>
                (req[r] = req'[r] \/ req[r].pc = "idle")
            /\ (req[r].pc \notin {"idle", "done"}
                    /\ req'[r].err \in {StoreFault, HashFault, UniqueViolation,
                                        ForeignKeyViolation, SyntaxError}) =>
                /\ req'[r].pc = "done"
                /\ req'[r].resp.status = 500
                /\ req'[r].resp.cookie = NoSetCookie]_vars
    /\ [](\A r \in Reqs :
            /\ req[r].pc = "done" <=> req[r].resp # NoResp
            /\ req[r].err # "" => req[r].pc = "done")

\* A registration whose second insert threw was answered 500, once, with its
\* users row left in the table.
C15_Witness ==
    \E r \in Reqs :
        /\ req[r].route = "register"
        /\ req[r].resp = AuthServerError
        /\ req[r].err = StoreFault
        /\ req[r].row \in users

\* The attributes of a Set-Cookie besides the lifetime: a clearing instruction
\* carries an expiry in the past in place of the maxAge of the issuance.
Attributes(c) == DOMAIN c \ {"op", "value", "maxAge"}

(* C16, as claimed: the clearCookie of a logout names the cookie that
   register and login set and carries the same attributes with the same
   values, none more and none less (the lifetime apart). *)
C16_ClearMatchesIssuance ==
    \A r \in Reqs :
        (req[r].pc = "done" /\ req[r].resp.cookie.op = "clear") =>
        LET clear == req[r].resp.cookie
            issued == SetAuthCookie(req[r].cookie)
        IN  /\ clear.name = issued.name
            /\ Attributes(clear) = Attributes(issued)
            /\ \A a \in Attributes(clear) \cap Attributes(issued) :
                    clear[a] = issued[a]

\* A body field that carries a value: given and not the empty string.
Given(v) == v \notin {Undefined, ""}

(* C17, as claimed: when the UPDATE of an admitted PUT /profile/update for
   subject s returns, every user_profiles row of s has each column whose
   field is present in the body set to that field and each other column as
   it was, the answer is the 200 "Profile updated." when s has a profile
   row, and the users table and the rows of the other users are as they
   were. *)
C17_UpdateWritesPresentFields ==
    [][\A r \in Reqs : Returns(r, "update_query") =>
            LET s == req[r].user_id
                b == req[r].body
            IN  /\ users' = users
                /\ Len(profiles') = Len(profiles)
                /\ \A k \in 1..Len(profiles) :
                        IF profiles[k].user_id # s
                        THEN profiles'[k] = profiles[k]
                        ELSE /\ profiles'[k].display_name =
                                    IF b.displayName # Undefined THEN b.displayName
                                    ELSE profiles[k].display_name
                             /\ profiles'[k].bio =
                                    IF b.bio # Undefined THEN b.bio
                                    ELSE profiles[k].bio
                /\ ProfilesOf(profiles, s) # <<>> => req'[r].resp = Update200]_vars

(* C17, amended: the same with "present and not the empty string" for
   "present". When the UPDATE of an admitted PUT /profile/update for subject s
   returns or is refused by the store's parser, every user_profiles row of s
   has each column whose field the body carries (non-empty) set to that
   field and each other column as it was; no row is added or removed, the
   rows of the other users, the users table and the id sequence are as they
   were; and with at least one field carried the answer is the 200 "Profile
   updated." exactly when s has a profile row. *)
C17_UpdateWritesGivenFields ==
    [][\A r \in Reqs :
            (/\ req[r].pc = "update_query"
             /\ req'[r].pc = "done"
             /\ req'[r].err # StoreFault) =>
            LET s == req[r].user_id
                b == req[r].body
            IN  /\ users' = users
                /\ nextId' = nextId
                /\ Len(profiles') = Len(profiles)
                /\ \A k \in 1..Len(profiles) :
                        IF profiles[k].user_id # s
                        THEN profiles'[k] = profiles[k]
                        ELSE /\ profiles'[k].user_id = s
                             /\ profiles'[k].display_name =
                                    IF Given(b.displayName) THEN b.displayName
                                    ELSE profiles[k].display_name
                             /\ profiles'[k].bio =
                                    IF Given(b.bio) THEN b.bio
                                    ELSE profiles[k].bio
                /\ (Given(b.displayName) \/ Given(b.bio)) =>
                        IF ProfilesOf(profiles, s) # <<>>
                        THEN /\ req'[r].resp.status = 200
                             /\ req'[r].resp.body = Msg(TRUE, "Profile updated.")
                        ELSE req'[r].resp.status # 200]_vars

\* An update that carried only displayName was answered 200 and the bio that
\* an earlier update wrote is still there, next to another user's defaults.
C17_Witness ==
    \E r \in Reqs :
        /\ req[r].route = "update"
        /\ req[r].resp = Update200
        /\ req[r].body.displayName = NewDisplayName
        /\ req[r].body.bio = Undefined
        /\ \E k \in 1..Len(profiles) :
            /\ profiles[k].user_id = req[r].user_id
            /\ profiles[k].display_name = NewDisplayName
            /\ profiles[k].bio = NewBio
        /\ \E k \in 1..Len(profiles) :
            /\ profiles[k].user_id # req[r].user_id
            /\ profiles[k].bio = DefaultBio

(* C18: an id that has had its users row deleted never gets a row again, and
   every id in the tables was drawn from the sequence before (also when a
   username is registered again after its deletion, which draws a new id).
   A request admitted with a token reads and changes only the rows of the
   id in that token: the profile a view returns is the first profile row of
   that id joined with the users row of that id, an update changes only
   profile rows of that id, a delete removes only the users row and the
   profile rows of that id. So the token of a deleted user reaches no row of
   a user created later. *)
C18_TokenReachesOwnRowsOnly ==
    /\ [][DeletedStaysDeleted]_vars
    /\ [][nextId' >= nextId]_vars
    /\ [](/\ \A u \in users : u.id < nextId
          /\ \A k \in 1..Len(profiles) : profiles[k].user_id < nextId
          /\ \A u1 \in users, u2 \in users : u1.id = u2.id => u1 = u2)
    /\ [](\A r \in Reqs : HandlerRan(req[r]) =>
            /\ req[r].user_id = req[r].cookie.id
            /\ req[r].cookie.id < nextId)
    /\ [][\A r \in Reqs :
            LET s == req[r].cookie.id
            IN  /\ (Returns(r, "view_query") /\ req'[r].resp.status = 200) =>
                    /\ UNCHANGED store
                    /\ \E u \in users :
                        /\ u.id = s
                        /\ req'[r].resp.body.data =
                            [username |-> u.username,
                             display_name |-> ProfilesOf(profiles, s)[1].display_name,
                             bio |-> ProfilesOf(profiles, s)[1].bio]
                /\ (/\ req[r].pc \in {"update_query", "delete_query"}
                    /\ req'[r].pc = "done") =>
                    /\ \A u \in users : u.id # s => u \in users'
                    /\ users' \subseteq users
                    /\ \A i \in Ids \ {s} :
                            ProfilesOf(profiles', i) = ProfilesOf(profiles, i)]_vars

\* The token of deleted user 1 was admitted and answered 404 by a view while
\* user 2, created later, has its rows untouched.
C18_Witness ==
    \E r \in Reqs :
        /\ req[r].route = "view"
        /\ req[r].resp = View404
        /\ req[r].cookie.id = 1
        /\ users # {}
        /\ \A u \in users : u.id = 2
        /\ ProfilesOf(profiles, 2) =
            <<[user_id |-> 2, display_name |-> DefaultDisplayName, bio |-> DefaultBio]>>

=============================================================================
